---------------------------- MODULE Spec2Model ----------------------------
(***************************************************************************)
(* Model of the reconciliation and upsert engine of src/entry_app.py:      *)
(* submit_results, fetch_existing_results_full, create_report_entry and    *)
(* send_notification, against a remote store (Results table, Reports       *)
(* table, page comments) whose every call may fail.                        *)
(*                                                                         *)
(* One action is one remote call together with the local code that runs   *)
(* up to the next remote call.  A page id is the position of the record in *)
(* its table (records are never deleted).  None is modelled as 0, which is *)
(* falsy exactly like Python's None in `if start_cursor:` and              *)
(* `if existing_page_id:`.                                                 *)
(***************************************************************************)
EXTENDS Integers, Sequences, FiniteSets, TLC

(* ------------------------------ bounds -------------------------------- *)
NumQuestions == 2      \* questions of a test
MaxSubmissions == 2    \* calls of submit_results in one behaviour
MaxFailures == 2       \* remote calls that fail in one behaviour
PageSize == 1          \* records per query page (page_size is 100)
MaxFetched == 2        \* pages fetched before a store stops omitting cursors

(* ----------------------------- constants ------------------------------ *)
Procs == {"A", "B"}                  \* sessions that run submit_results
Solo == {"A"}                        \* the session of a one-session run
Students == {"s1"}
Tests == {"t1", "t2"}
Questions == 1..NumQuestions
Correct == "Correct"                 \* the select option for a right answer
Incorrect == "Incorrect"             \* the select option for a wrong answer
Outcomes == {Correct, Incorrect}
TimedTests == {"t1"}
OverlapTest == "t1"    \* the test two overlapping sessions both submit                 \* test names with a timed prefix
\* session_state time_taken when the form calls submit_results: the number
\* input (validated > 0) of a timed test, 0 for any other test
TimesFor(t) == IF t \in TimedTests THEN {5} ELSE {0}
AnyTimes == {0, 5}                   \* values session_state can hold
ADMIN_USER_ID == "admin"
StatusDone == "entry complete"       \* the report status select option

\* The answer of the remote side to one call:
\*   ok          status 200, the call took effect
\*   status      a non-success status, no effect
\*   exc         requests raised (connection error, timeout), no effect
\*   exc_applied requests raised after the server had applied the call
Resp == {"ok", "status", "exc", "exc_applied"}
QueryResp == {"ok", "status", "exc"}

Applied(resp) == resp \in {"ok", "exc_applied"}
Raised(resp) == resp \in {"exc", "exc_applied"}
Is200(resp) == resp = "ok"

\* q["score"] of the Questions table (read-only data of the remote store;
\* the 배점 of every question holds a number)
ScoreOf(q) == CASE q = 1 -> 3 [] q = 2 -> 5 [] q = 3 -> 2 [] OTHER -> 1

\* every non-empty dict {q_id: outcome}
OutcomeMaps == UNION {[D -> Outcomes] : D \in (SUBSET Questions) \ {{}}}

VARIABLES
    R_DB,            \* Results table: sequence of result records
    REPORT_DB,       \* Reports table: sequence of report records
    comments,        \* comments delivered to pages: sequence of [page, user]
    questions,       \* ids of the cached question list passed to submit_results
    pc,              \* position of each session
    student_id, test_name, final_outcomes, time_taken, exam_date,
    results,         \* fetch_existing_results_full: records fetched so far
    has_more, start_cursor,
    existing_map,    \* q_id -> page id (0: no entry)
    todo,            \* keys of final_outcomes the loop has not reached
    success_count, fail_count, total_score,
    existing_page_id,\* create_report_entry: the report found (0: None)
    notify_page,     \* page the pending notification is addressed to
    info_shown,      \* st.info("Updated Report Management DB ...") was shown
    nsub,            \* submissions started
    failures,        \* remote calls that failed so far
    hist,            \* observation of the running submission (history only)
    prev,            \* observation of the last finished submission
    ever             \* observation of the whole behaviour

remote == <<R_DB, REPORT_DB, comments>>
session == <<student_id, test_name, final_outcomes, time_taken, exam_date>>
loader == <<results, has_more, start_cursor, existing_map>>
counters == <<todo, success_count, fail_count, total_score>>
vars == <<R_DB, REPORT_DB, comments, questions, pc, student_id, test_name,
          final_outcomes, time_taken, exam_date, results, has_more,
          start_cursor, existing_map, todo, success_count, fail_count,
          total_score, existing_page_id, notify_page, info_shown, nsub,
          failures, hist, prev, ever>>

(* ------------------------- remote store helpers ----------------------- *)
\* (variant) the filter leaves out the test name
MatchesStudentOnly(r, s, t) == r.student = s

\* the query filter: 학생 contains student_id and 시험명 equals test_name
Matches(r, s, t) == r.student = s /\ r.test = t

RECURSIVE SelectIds(_, _, _, _)
\* ids of the records of table db matching the filter, in table order
SelectIds(db, s, t, i) ==
    IF i > Len(db) THEN <<>>
    ELSE (IF Matches(db[i], s, t) THEN <<i>> ELSE <<>>)
         \o SelectIds(db, s, t, i + 1)

QueryFilter(db, s, t) == SelectIds(db, s, t, 1)

Min(a, b) == IF a < b THEN a ELSE b

\* one page of a query: the matches after position cursor, at most PageSize
PageOf(matches, cursor) ==
    [results |-> SubSeq(matches, cursor + 1, Min(cursor + PageSize, Len(matches))),
     has_more |-> cursor + PageSize < Len(matches),
     next_cursor |-> IF cursor + PageSize < Len(matches)
                     THEN cursor + PageSize ELSE 0,
     keyed |-> TRUE]      \* the answer has a "next_cursor" key

RECURSIVE BuildMapFirstId(_, _, _)
\* (variant) the map takes results[0]["id"] in place of r["id"]
BuildMapFirstId(db, ids, m) ==
    IF ids = <<>> THEN m
    ELSE [q \in Questions |->
            IF \E k \in DOMAIN ids : db[ids[k]].q = q THEN Head(ids) ELSE m[q]]

RECURSIVE BuildMapFirstWins(_, _, _)
\* (variant) an entry of the map is never overwritten
BuildMapFirstWins(db, ids, m) ==
    IF ids = <<>> THEN m
    ELSE BuildMapFirstWins(db, Tail(ids),
            IF m[db[Head(ids)].q] = 0
            THEN [m EXCEPT ![db[Head(ids)].q] = Head(ids)] ELSE m)

RECURSIVE BuildMap(_, _, _)
\* existing_map[q_id] = r["id"] for r in results, later entries overwrite
BuildMap(db, ids, m) ==
    IF ids = <<>> THEN m
    ELSE BuildMap(db, Tail(ids), [m EXCEPT ![db[Head(ids)].q] = Head(ids)])

EmptyMap == [q \in Questions |-> 0]

NoHist == [pre |-> <<>>, attempts |-> [q \in Questions |-> 0],
           created |-> {}, updated |-> {}, load_failed |-> FALSE,
           clean |-> TRUE, report_calls |-> 0, score_arg |-> 0,
           n200 |-> 0, nfail |-> 0,
           rq |-> 0, rwrites |-> 0, report_resp |-> "none",
           notified |-> <<>>, lookup_failed |-> FALSE,
           notify_resp |-> "none", written |-> <<>>,
           fetches |-> 0, odd |-> FALSE]

NoPrev == [valid |-> FALSE, student |-> "s1", test |-> "t1",
           outcomes |-> <<>>, clean |-> FALSE, nodup |-> FALSE]

\* no two records of the Results table share (student, question, test)
NoDupResults(db) ==
    \A i, j \in DOMAIN db :
        (db[i].student = db[j].student /\ db[i].q = db[j].q
         /\ db[i].test = db[j].test) => i = j

\* Results tables a behaviour starts from: empty, one earlier answer, and
\* the same answer stored twice
InitRecord(o) ==
    [student |-> "s1", q |-> 1, test |-> "t1", outcome |-> o, date |-> 0]
InitStores == {<<>>, <<InitRecord(Incorrect)>>,
               <<InitRecord(Incorrect), InitRecord(Correct)>>}

(* ------------------------------- Init --------------------------------- *)
Init ==
    /\ R_DB \in InitStores
    /\ REPORT_DB = <<>>
    /\ comments = <<>>
    /\ questions \in {Questions, Questions \ {NumQuestions}}
    /\ pc = [p \in Procs |-> "idle"]
    /\ student_id = [p \in Procs |-> "s1"]
    /\ test_name = [p \in Procs |-> "t1"]
    /\ final_outcomes = [p \in Procs |-> <<>>]
    /\ time_taken = [p \in Procs |-> 0]
    /\ exam_date = [p \in Procs |-> 0]
    /\ results = [p \in Procs |-> <<>>]
    /\ has_more = [p \in Procs |-> FALSE]
    /\ start_cursor = [p \in Procs |-> 0]
    /\ existing_map = [p \in Procs |-> EmptyMap]
    /\ todo = [p \in Procs |-> {}]
    /\ success_count = [p \in Procs |-> 0]
    /\ fail_count = [p \in Procs |-> 0]
    /\ total_score = [p \in Procs |-> 0]
    /\ existing_page_id = [p \in Procs |-> 0]
    /\ notify_page = [p \in Procs |-> 0]
    /\ info_shown = [p \in Procs |-> FALSE]
    /\ nsub = 0
    /\ failures = 0
    /\ hist = [p \in Procs |-> NoHist]
    /\ prev = NoPrev
    /\ ever = [load_failed |-> FALSE, nodup0 |-> NoDupResults(R_DB)]

\* a failing answer is possible while the failure budget lasts
Allowed(resp) == resp = "ok" \/ failures < MaxFailures
Count(resp) == IF resp = "ok" THEN failures ELSE failures + 1

(* --------------------------- submit_results --------------------------- *)
\* the locals of submit_results at its entry, for the session's student,
\* test, time_taken and exam date
Submit(p, s, t, fo, tt) ==
    /\ student_id' = [student_id EXCEPT ![p] = s]
    /\ test_name' = [test_name EXCEPT ![p] = t]
    /\ final_outcomes' = [final_outcomes EXCEPT ![p] = fo]
    /\ time_taken' = [time_taken EXCEPT ![p] = tt]
    /\ todo' = [todo EXCEPT ![p] = DOMAIN fo]
    /\ exam_date' = [exam_date EXCEPT ![p] = nsub + 1]
    /\ nsub' = nsub + 1
    /\ results' = [results EXCEPT ![p] = <<>>]
    /\ has_more' = [has_more EXCEPT ![p] = TRUE]
    /\ start_cursor' = [start_cursor EXCEPT ![p] = 0]
    /\ existing_map' = [existing_map EXCEPT ![p] = EmptyMap]
    /\ success_count' = [success_count EXCEPT ![p] = 0]
    /\ fail_count' = [fail_count EXCEPT ![p] = 0]
    /\ total_score' = [total_score EXCEPT ![p] = 0]
    /\ existing_page_id' = [existing_page_id EXCEPT ![p] = 0]
    /\ notify_page' = [notify_page EXCEPT ![p] = 0]
    /\ info_shown' = [info_shown EXCEPT ![p] = FALSE]
    /\ hist' = [hist EXCEPT ![p] = [NoHist EXCEPT !.pre = R_DB]]
    /\ pc' = [pc EXCEPT ![p] = "load"]
    /\ UNCHANGED <<remote, questions, failures, prev, ever>>

\* The form's "Save Results" button: submit_results(final_outcomes, questions)
\* up to the first query of fetch_existing_results_full.  The form passes an
\* outcome for every question of its list, so the dict is never empty.  A
\* submission starts only while no other one runs (submissions do not
\* overlap), and each one carries its own exam date.
Start(p) ==
    /\ pc[p] = "idle"
    /\ \A o \in Procs : pc[o] = "idle"
    /\ nsub < MaxSubmissions
    /\ \E s \in Students, t \in Tests, fo \in OutcomeMaps :
       \E tt \in TimesFor(t) : Submit(p, s, t, fo, tt)

\* Two sessions save results for the same student and test, each once, the
\* second possibly while the first is still running.
StartOverlap(p) ==
    /\ pc[p] = "idle"
    /\ \E s \in Students, fo \in OutcomeMaps, tt \in TimesFor(OverlapTest) :
         Submit(p, s, OverlapTest, fo, tt)

\* submit_results called with any session_state time_taken for any test
\* (the form's validation of line 784 left aside)
StartAnyTime(p) ==
    /\ pc[p] = "idle"
    /\ \A o \in Procs : pc[o] = "idle"
    /\ nsub < MaxSubmissions
    /\ \E s \in Students, t \in Tests, fo \in OutcomeMaps :
       \E tt \in AnyTimes : Submit(p, s, t, fo, tt)

(* -------------------- fetch_existing_results_full --------------------- *)
\* the while loop is left on a page without has_more, on any failed page and
\* on the KeyError of an answer without a "next_cursor" key
LoopExits(resp, page) == ~Is200(resp) \/ ~page.has_more \/ ~page.keyed

\* One iteration of `while has_more:` on the answer resp carrying page; on
\* leaving the loop the map is built and submit_results goes on to its
\* write loop.
Fetch(p, resp, page, odd) ==
    LET got == IF Is200(resp) THEN results[p] \o page.results
               ELSE results[p]
    IN  /\ Allowed(resp)
        /\ failures' = Count(resp)
        /\ results' = [results EXCEPT ![p] = got]
        /\ has_more' = [has_more EXCEPT ![p] =
                IF Is200(resp) THEN page.has_more ELSE @]
        /\ start_cursor' = [start_cursor EXCEPT ![p] =
                IF Is200(resp) /\ page.keyed THEN page.next_cursor ELSE @]
        /\ hist' = [hist EXCEPT ![p].load_failed = @ \/ ~Is200(resp),
                                ![p].clean = @ /\ Is200(resp),
                                ![p].fetches = IF Is200(resp) THEN @ + 1 ELSE @,
                                ![p].odd = @ \/ odd]
        /\ IF LoopExits(resp, page)
           THEN /\ existing_map' = [existing_map EXCEPT ![p] =
                       BuildMap(R_DB, got, EmptyMap)]
                /\ pc' = [pc EXCEPT ![p] = "write"]
           ELSE /\ pc' = pc
                /\ existing_map' = existing_map
        /\ UNCHANGED <<remote, questions, session, counters,
                       existing_page_id, notify_page, info_shown, nsub, prev>>
        /\ ever' = [ever EXCEPT !.load_failed = @ \/ hist'[p].load_failed]

\* a query of the loop, answered by the store as its interface promises
FetchPage(p) ==
    /\ pc[p] = "load"
    /\ \E resp \in QueryResp :
         Fetch(p, resp,
               PageOf(QueryFilter(R_DB, student_id[p], test_name[p]),
                      start_cursor[p]), FALSE)

\* the page as a store would send it that reports has_more and gives a null
\* or empty next_cursor (keyed) or none at all
OddPage(page, keyed) ==
    [page EXCEPT !.has_more = TRUE, !.next_cursor = 0, !.keyed = keyed]

\* a query of the loop answered 200 with has_more and an empty or absent
\* next_cursor
FetchOddPage(p) ==
    /\ pc[p] = "load"
    /\ hist[p].fetches < MaxFetched
    /\ \E keyed \in BOOLEAN :
         Fetch(p, "ok",
               OddPage(PageOf(QueryFilter(R_DB, student_id[p], test_name[p]),
                              start_cursor[p]), keyed), TRUE)

(* ------------------- submit_results: the write loop ------------------- *)
\* (variant) the score counts every submitted question
ScoreAddAll(outcome, q, qs) == IF q \in qs THEN ScoreOf(q) ELSE 0

\* total_score += q_meta_map.get(q_id, {}).get("score", 0) for a right answer
ScoreAdd(outcome, q, qs) ==
    IF outcome = Correct THEN (IF q \in qs THEN ScoreOf(q) ELSE 0) ELSE 0

\* (variant) the loop never finds an existing page
IsUpdateNever(m, q) == FALSE

\* `if existing_page_id:` of the loop: update that page, else create
IsUpdate(m, q) == m[q] # 0

\* (variant) the PATCH carries 정오 only
PatchResultOutcomeOnly(db, id, outcome, date) ==
    [db EXCEPT ![id].outcome = outcome]

\* PATCH /pages/{id}: 정오 and 응시일 of the page
PatchResult(db, id, outcome, date) ==
    [db EXCEPT ![id].outcome = outcome, ![id].date = date]

\* POST /pages with parent R_DB_ID
NewResult(s, q, t, outcome, date) ==
    [student |-> s, q |-> q, test |-> t, outcome |-> outcome, date |-> date]

\* (variant) a raised exception is passed over without counting
TallyDropRaised(resp, sc, fc) ==
    IF Is200(resp) THEN <<sc + 1, fc>>
    ELSE IF Raised(resp) THEN <<sc, fc>> ELSE <<sc, fc + 1>>

\* success_count and fail_count after one answer
Tally(resp, sc, fc) ==
    IF Is200(resp) THEN <<sc + 1, fc>> ELSE <<sc, fc + 1>>

\* (variant) the report is maintained after every submission
ReportGateAlways(sc) == TRUE

\* `if success_count > 0:` before create_report_entry
ReportGate(sc) == sc > 0

\* One iteration of `for i, (q_id, outcome) in enumerate(...)`; after the
\* last one, the code up to the query of create_report_entry, or the return.
WriteResult(p) ==
    /\ pc[p] = "write"
    /\ \E q \in todo[p], resp \in Resp :
         LET outcome == final_outcomes[p][q]
             id == existing_map[p][q]
             score == total_score[p] + ScoreAdd(outcome, q, questions)
             tally == Tally(resp, success_count[p], fail_count[p])
             rest == todo[p] \ {q}
             invoke == rest = {} /\ ReportGate(tally[1])
         IN  /\ Allowed(resp)
             /\ failures' = Count(resp)
             /\ total_score' = [total_score EXCEPT ![p] = score]
             /\ R_DB' =
                  IF ~Applied(resp) THEN R_DB
                  ELSE IF IsUpdate(existing_map[p], q)
                       THEN PatchResult(R_DB, id, outcome, exam_date[p])
                       ELSE Append(R_DB, NewResult(student_id[p], q,
                                test_name[p], outcome, exam_date[p]))
             /\ success_count' = [success_count EXCEPT ![p] = tally[1]]
             /\ fail_count' = [fail_count EXCEPT ![p] = tally[2]]
             /\ todo' = [todo EXCEPT ![p] = rest]
             /\ hist' = [hist EXCEPT
                    ![p].attempts[q] = @ + 1,
                    ![p].created = IF IsUpdate(existing_map[p], q)
                                   THEN @ ELSE @ \cup {q},
                    ![p].updated = IF IsUpdate(existing_map[p], q)
                                   THEN @ \cup {id} ELSE @,
                    ![p].clean = @ /\ Is200(resp),
                    ![p].n200 = IF resp = "ok" THEN @ + 1 ELSE @,
                    ![p].nfail = IF resp = "ok" THEN @ ELSE @ + 1,
                    ![p].report_calls = IF invoke THEN @ + 1 ELSE @,
                    ![p].score_arg = IF invoke THEN score ELSE @]
             /\ pc' = [pc EXCEPT ![p] =
                    IF rest # {} THEN "write"
                    ELSE IF invoke THEN "report_query" ELSE "done"]
    /\ UNCHANGED <<REPORT_DB, comments, questions, session, loader,
                   existing_page_id, notify_page, info_shown, nsub, prev,
                   ever>>

(* ------------------------ create_report_entry ------------------------- *)
\* (variant) the report lookup finds nothing
FirstReportNone(db, s, t) == 0

\* results[0]["id"] of the report query, None when it matched nothing
FirstReport(db, s, t) ==
    LET m == QueryFilter(db, s, t) IN IF m = <<>> THEN 0 ELSE Head(m)

\* "1. Check if entry exists"
ReportQuery(p) ==
    /\ pc[p] = "report_query"
    /\ \E resp \in QueryResp :
         /\ Allowed(resp)
         /\ failures' = Count(resp)
         /\ existing_page_id' = [existing_page_id EXCEPT ![p] =
                IF Is200(resp)
                THEN FirstReport(REPORT_DB, student_id[p], test_name[p])
                ELSE 0]
         /\ hist' = [hist EXCEPT ![p].rq = @ + 1,
                                 ![p].lookup_failed = ~Is200(resp),
                                 ![p].clean = @ /\ Is200(resp)]
    /\ pc' = [pc EXCEPT ![p] = "report_write"]
    /\ UNCHANGED <<remote, questions, session, loader, counters,
                   notify_page, info_shown, nsub, prev, ever>>

\* the page after PATCH with props; 소요시간 is part of props only when > 0
PatchReport(db, id, s, t, score, date, tt) ==
    [db EXCEPT ![id] = [student |-> s, test |-> t, score |-> score,
                        status |-> StatusDone, date |-> date,
                        time |-> IF tt > 0 THEN tt ELSE @.time]]

\* the page POST creates; a page without 소요시간 holds 0
NewReport(s, t, score, date, tt) ==
    [student |-> s, test |-> t, score |-> score, status |-> StatusDone,
     date |-> date, time |-> IF tt > 0 THEN tt ELSE 0]

\* the update branch notifies unless requests.patch raised
NotifiesAfterUpdate(resp) == ~Raised(resp)
\* the create branch notifies when res.status_code == 200
NotifiesAfterCreate(resp) == Is200(resp)

\* The PATCH or POST of the report, up to send_notification's POST or, when
\* no notification follows, the return into submit_results and its st.info.
ReportWrite(p) ==
    /\ pc[p] = "report_write"
    /\ \E resp \in Resp :
         LET id == existing_page_id[p]
             s == student_id[p]
             t == test_name[p]
             score == total_score[p]
             db == IF ~Applied(resp) THEN REPORT_DB
                   ELSE IF id # 0
                        THEN PatchReport(REPORT_DB, id, s, t, score,
                                         exam_date[p], time_taken[p])
                        ELSE Append(REPORT_DB, NewReport(s, t, score,
                                         exam_date[p], time_taken[p]))
             notifies == IF id # 0 THEN NotifiesAfterUpdate(resp)
                         ELSE NotifiesAfterCreate(resp)
         IN  /\ Allowed(resp)
             /\ failures' = Count(resp)
             /\ REPORT_DB' = db
             /\ notify_page' = [notify_page EXCEPT ![p] =
                    IF ~notifies THEN 0
                    ELSE IF id # 0 THEN id ELSE Len(db)]
             /\ info_shown' = [info_shown EXCEPT ![p] = ~notifies]
             /\ pc' = [pc EXCEPT ![p] = IF notifies THEN "notify" ELSE "done"]
             /\ hist' = [hist EXCEPT ![p].rwrites = @ + 1,
                                     ![p].report_resp = resp,
                                     ![p].written = db,
                                     ![p].clean = @ /\ Is200(resp)]
    /\ UNCHANGED <<R_DB, comments, questions, session, loader, counters,
                   existing_page_id, nsub, prev, ever>>

(* ------------------------- send_notification -------------------------- *)
\* (variant) requests.post is called outside the try
SwallowedUnlessRaised(resp) == ~Raised(resp)

\* try: requests.post(...) except: pass, and the answer is never read
Swallowed(resp) == TRUE

\* POST /comments inside try/except: pass; then the return into
\* submit_results and its st.info.  An exception that left send_notification
\* would end submit_results before its st.info ("raised").
Notify(p) ==
    /\ pc[p] = "notify"
    /\ \E resp \in Resp :
         /\ Allowed(resp)
         /\ failures' = Count(resp)
         /\ comments' = IF Applied(resp)
                        THEN Append(comments, [page |-> notify_page[p],
                                               user |-> ADMIN_USER_ID])
                        ELSE comments
         /\ hist' = [hist EXCEPT
                ![p].notified = Append(@, [page |-> notify_page[p],
                                           user |-> ADMIN_USER_ID]),
                ![p].notify_resp = resp,
                ![p].clean = @ /\ Is200(resp)]
         /\ info_shown' = [info_shown EXCEPT ![p] = Swallowed(resp)]
         /\ pc' = [pc EXCEPT ![p] =
                IF Swallowed(resp) THEN "done" ELSE "raised"]
    /\ UNCHANGED <<R_DB, REPORT_DB, questions, session, loader, counters,
                   existing_page_id, notify_page, nsub, prev, ever>>

\* submit_results returns; its locals are gone
Return(p) ==
    /\ pc[p] = "done"
    /\ prev' = [valid |-> TRUE, student |-> student_id[p],
                test |-> test_name[p], outcomes |-> final_outcomes[p],
                clean |-> hist[p].clean, nodup |-> NoDupResults(hist[p].pre)]
    /\ pc' = [pc EXCEPT ![p] = "idle"]
    /\ student_id' = [student_id EXCEPT ![p] = "s1"]
    /\ test_name' = [test_name EXCEPT ![p] = "t1"]
    /\ final_outcomes' = [final_outcomes EXCEPT ![p] = <<>>]
    /\ time_taken' = [time_taken EXCEPT ![p] = 0]
    /\ exam_date' = [exam_date EXCEPT ![p] = 0]
    /\ results' = [results EXCEPT ![p] = <<>>]
    /\ has_more' = [has_more EXCEPT ![p] = FALSE]
    /\ start_cursor' = [start_cursor EXCEPT ![p] = 0]
    /\ existing_map' = [existing_map EXCEPT ![p] = EmptyMap]
    /\ todo' = [todo EXCEPT ![p] = {}]
    /\ success_count' = [success_count EXCEPT ![p] = 0]
    /\ fail_count' = [fail_count EXCEPT ![p] = 0]
    /\ total_score' = [total_score EXCEPT ![p] = 0]
    /\ existing_page_id' = [existing_page_id EXCEPT ![p] = 0]
    /\ notify_page' = [notify_page EXCEPT ![p] = 0]
    /\ info_shown' = [info_shown EXCEPT ![p] = FALSE]
    /\ hist' = [hist EXCEPT ![p] = NoHist]
    /\ UNCHANGED <<remote, questions, nsub, failures, ever>>

(* ------------------------------ properties ---------------------------- *)
\* what a ResultRecord says, without its exam date
Proj(db) ==
    [i \in DOMAIN db |-> [student |-> db[i].student, q |-> db[i].q,
                          test |-> db[i].test, outcome |-> db[i].outcome]]

RECURSIVE SumScores(_, _, _)
\* the sum of the scores of the questions of S answered right, 0 for a
\* question without metadata
SumScores(S, fo, qs) ==
    IF S = {} THEN 0
    ELSE LET q == CHOOSE x \in S : TRUE
         IN  (IF fo[q] = Correct /\ q \in qs THEN ScoreOf(q) ELSE 0)
             + SumScores(S \ {q}, fo, qs)

ReportsOf(s, t) ==
    {i \in DOMAIN REPORT_DB :
        REPORT_DB[i].student = s /\ REPORT_DB[i].test = t}

\* the running submission repeats the one before it, every remote call of
\* both succeeded, and the first of the two began without duplicates
Resubmitted(p) ==
    /\ pc[p] = "done"
    /\ prev.valid /\ prev.clean /\ prev.nodup
    /\ hist[p].clean
    /\ prev.student = student_id[p]
    /\ prev.test = test_name[p]
    /\ prev.outcomes = final_outcomes[p]

\* C1: a submission that repeats the one before it (same student, test and
\* outcomes, all remote calls of both succeeding, no duplicates to begin
\* with) issues no create, and leaves the Results table with the same
\* records and outcomes as the first one left it.
C1_Idempotent ==
    \A p \in Procs :
        Resubmitted(p) =>
            /\ hist[p].created = {}
            /\ Proj(R_DB) = Proj(hist[p].pre)

C1_Witness ==
    \E p \in Procs :
        /\ Resubmitted(p)
        /\ Cardinality(hist[p].updated) = NumQuestions
        /\ Len(hist[p].pre) > 1

\* C2: after a submission, when every remote call of the behaviour so far
\* succeeded, exactly one ReportRecord exists for its (student, test) and its
\* totalScore is the score of this last submission's outcomes.
C2_OneReportLastScore ==
    \A p \in Procs :
        (pc[p] = "done" /\ failures = 0) =>
            LET rs == ReportsOf(student_id[p], test_name[p])
            IN  /\ Cardinality(rs) = 1
                /\ \A i \in rs :
                      REPORT_DB[i].score =
                        SumScores(DOMAIN final_outcomes[p],
                                  final_outcomes[p], questions)

\* a second submission to the same pair whose score differs from the first
C2_Witness ==
    \E p \in Procs :
        /\ pc[p] = "done" /\ failures = 0
        /\ prev.valid /\ prev.student = student_id[p]
        /\ prev.test = test_name[p]
        /\ existing_page_id[p] # 0
        /\ SumScores(DOMAIN prev.outcomes, prev.outcomes, questions)
             # SumScores(DOMAIN final_outcomes[p], final_outcomes[p], questions)

\* C3: no (student, test) pair ever has two ReportRecords, whatever remote
\* calls fail.
C3_AtMostOneReport ==
    \A i, j \in DOMAIN REPORT_DB :
        (REPORT_DB[i].student = REPORT_DB[j].student
         /\ REPORT_DB[i].test = REPORT_DB[j].test) => i = j

\* the record the running submission holds for question q of its test
RecordsFor(db, s, q, t) ==
    {i \in DOMAIN db : db[i].student = s /\ db[i].q = q /\ db[i].test = t}

\* C4: from a Results table without duplicates, as long as no existing-state
\* load failed, no (student, question, test) has two records, whatever writes
\* fail: a create is issued only for a question that had no record, and an
\* update goes to the record of a submitted question of this student and test.
C4_AtMostOneResult ==
    (ever.nodup0 /\ ~ever.load_failed) =>
        /\ NoDupResults(R_DB)
        /\ \A p \in Procs :
              /\ \A q \in hist[p].created :
                    RecordsFor(hist[p].pre, student_id[p], q, test_name[p]) = {}
              /\ \A id \in hist[p].updated :
                    /\ id \in DOMAIN hist[p].pre
                    /\ hist[p].pre[id].student = student_id[p]
                    /\ hist[p].pre[id].test = test_name[p]
                    /\ hist[p].pre[id].q \in DOMAIN final_outcomes[p]

\* a resubmission after a create that the client counted as failed: it
\* updated one record and created another
C4_Witness ==
    \E p \in Procs :
        /\ ever.nodup0 /\ ~ever.load_failed
        /\ pc[p] = "done"
        /\ prev.valid /\ ~prev.clean
        /\ hist[p].updated # {} /\ hist[p].created # {}
        /\ hist[p].nfail > 0
        /\ Len(R_DB) > NumQuestions

\* C5: a submission whose existing-state load failed issues no result write
\* and no report call.
C5_LoadFailureAborts ==
    \A p \in Procs :
        hist[p].load_failed =>
            /\ \A q \in Questions : hist[p].attempts[q] = 0
            /\ hist[p].rq = 0 /\ hist[p].rwrites = 0
            /\ hist[p].notified = <<>>

\* C6: when create_report_entry has written the report, it has notified the
\* admin exactly once if the write succeeded and not at all if it failed.
C6_NotificationGating ==
    \A p \in Procs :
        (pc[p] = "done" /\ hist[p].rwrites > 0) =>
            /\ hist[p].report_resp = "ok" =>
                  /\ Len(hist[p].notified) = 1
                  /\ hist[p].notified[1].user = ADMIN_USER_ID
            /\ hist[p].report_resp # "ok" => hist[p].notified = <<>>

\* C7: every submitted question gets exactly one write attempt whatever
\* writes failed before it; success_count is the number of writes answered
\* 200, fail_count the number of the others, and they add up to the number
\* of submitted questions.
C7_PartialFailure ==
    \A p \in Procs :
        /\ success_count[p] = hist[p].n200
        /\ fail_count[p] = hist[p].nfail
        /\ pc[p] # "idle" =>
              /\ \A q \in DOMAIN final_outcomes[p] :
                    hist[p].attempts[q] = IF q \in todo[p] THEN 0 ELSE 1
              /\ \A q \in Questions \ DOMAIN final_outcomes[p] :
                    hist[p].attempts[q] = 0
        /\ pc[p] \notin {"idle", "load", "write"} =>
              /\ todo[p] = {}
              /\ success_count[p] + fail_count[p]
                   = Cardinality(DOMAIN final_outcomes[p])

\* a finished submission whose first write failed and whose last succeeded
C7_Witness ==
    \E p \in Procs :
        /\ pc[p] = "done"
        /\ success_count[p] = 1 /\ fail_count[p] = 1
        /\ hist[p].updated # {} /\ hist[p].created # {}

\* C8: create_report_entry is invoked once, after the last result write, by
\* a submission with success_count > 0, and not at all (no report query, no
\* report write, no notification) by one whose every write failed.
C8_ReportGate ==
    \A p \in Procs :
        /\ hist[p].report_calls > 0 => (todo[p] = {} /\ pc[p] # "write")
        /\ pc[p] \in {"report_query", "report_write", "notify"} =>
              (success_count[p] > 0 /\ hist[p].report_calls = 1)
        /\ pc[p] = "done" =>
              /\ success_count[p] > 0 =>
                    (hist[p].report_calls = 1 /\ hist[p].rq = 1)
              /\ success_count[p] = 0 =>
                    /\ hist[p].report_calls = 0
                    /\ hist[p].rq = 0 /\ hist[p].rwrites = 0
                    /\ hist[p].notified = <<>>

\* a finished submission whose every write failed
C8_Witness ==
    \E p \in Procs :
        /\ pc[p] = "done"
        /\ success_count[p] = 0
        /\ fail_count[p] = NumQuestions

\* C9: the score handed to create_report_entry is the sum of the scores of
\* the submitted questions answered right, 0 for one without metadata,
\* whichever writes failed and in whichever order the loop ran.
C9_TotalScore ==
    \A p \in Procs :
        hist[p].report_calls > 0 =>
            hist[p].score_arg =
                SumScores(DOMAIN final_outcomes[p], final_outcomes[p], questions)

\* a report for two right answers, one without metadata, after a failed write
C9_Witness ==
    \E p \in Procs :
        /\ hist[p].report_calls > 0
        /\ fail_count[p] > 0
        /\ DOMAIN final_outcomes[p] = Questions
        /\ \A q \in Questions : final_outcomes[p][q] = Correct
        /\ questions # Questions
        /\ hist[p].score_arg > 0

\* C10: a record that existed when the submission began and whose question
\* is not submitted is the same record (outcome, exam date) throughout.
C10_UntouchedPreserved ==
    \A p \in Procs :
        pc[p] # "idle" =>
            \A i \in DOMAIN hist[p].pre :
                hist[p].pre[i].q \notin DOMAIN final_outcomes[p] =>
                    (i \in DOMAIN R_DB /\ R_DB[i] = hist[p].pre[i])

\* a finished submission that updated one question's record while another
\* question of the same test had a record and was not submitted
C10_Witness ==
    \E p \in Procs :
        /\ pc[p] = "done"
        /\ hist[p].updated # {}
        /\ \E i \in DOMAIN hist[p].pre :
              /\ hist[p].pre[i].q \notin DOMAIN final_outcomes[p]
              /\ hist[p].pre[i].test = test_name[p]
              /\ hist[p].pre[i].outcome = Correct

\* C11: whatever send_notification's POST answers (200, a non-success status,
\* a timeout or another exception), submit_results completes without an
\* exception, the Reports table is as the report write left it, and
\* success_count and fail_count are those of the result writes.
C11_NotificationSwallowed ==
    \A p \in Procs :
        hist[p].notified # <<>> =>
            /\ pc[p] = "done"
            /\ info_shown[p]
            /\ REPORT_DB = hist[p].written
            /\ success_count[p] = hist[p].n200
            /\ fail_count[p] = hist[p].nfail

\* a finished submission whose notification POST raised
C11_Witness ==
    \E p \in Procs :
        /\ pc[p] = "done"
        /\ hist[p].notify_resp = "exc"
        /\ hist[p].report_resp = "ok"
        /\ Len(REPORT_DB) > 0

\* C12: a submission tells its caller that the report was updated and the
\* administrator notified only when the report lookup and the report write
\* both succeeded.
C12_ReportSignal ==
    \A p \in Procs :
        (pc[p] = "done" /\ info_shown[p]) =>
            /\ ~hist[p].lookup_failed
            /\ hist[p].report_resp = "ok"

LastFor(db, s, q, t) ==
    LET ids == RecordsFor(db, s, q, t)
    IN  IF ids = {} THEN 0 ELSE CHOOSE i \in ids : \A j \in ids : j <= i

\* C14: after a load without failure the map holds, for every question, the
\* last of its records in the order the pages returned them; the submission
\* updates only such last records and leaves every other duplicate as it was.
C14_LastDuplicateWins ==
    \A p \in Procs :
        (pc[p] \notin {"idle", "load"} /\ ~hist[p].load_failed) =>
            LET s == student_id[p]
                t == test_name[p]
                pre == hist[p].pre
            IN  /\ \A q \in Questions :
                      existing_map[p][q] = LastFor(pre, s, q, t)
                /\ \A id \in hist[p].updated :
                      \E q \in DOMAIN final_outcomes[p] :
                          id = LastFor(pre, s, q, t)
                /\ \A i \in DOMAIN pre :
                      i # LastFor(pre, s, pre[i].q, t) => R_DB[i] = pre[i]

\* a finished resubmission of a question stored twice: the second record
\* was updated and changed, the first was not
C14_Witness ==
    \E p \in Procs :
        /\ pc[p] = "done" /\ ~hist[p].load_failed
        /\ \E q \in DOMAIN final_outcomes[p] :
              LET ids == RecordsFor(hist[p].pre, student_id[p], q, test_name[p])
                  last == LastFor(hist[p].pre, student_id[p], q, test_name[p])
              IN  /\ Cardinality(ids) > 1
                  /\ hist[p].updated = {last}
                  /\ R_DB[last].outcome # hist[p].pre[last].outcome

\* what the loader has when it followed every cursor once: nothing fetched
\* twice, no more queries than pages, and at the end every matching record
\* fetched and every question with a record a key of the map
PagedThrough(p) ==
    LET s == student_id[p]
        t == test_name[p]
        m == QueryFilter(hist[p].pre, s, t)
        n == IF Len(m) = 0 THEN 1 ELSE Len(m)
    IN  /\ Len(results[p]) <= Len(m)
        /\ results[p] = SubSeq(m, 1, Len(results[p]))
        /\ hist[p].fetches = 0 \/ (hist[p].fetches - 1) * PageSize < n
        /\ pc[p] \notin {"idle", "load"} =>
              /\ results[p] = m
              /\ \A q \in Questions :
                    existing_map[p][q] # 0
                      <=> RecordsFor(hist[p].pre, s, q, t) # {}

\* A load without transport error, from a store that gives a next cursor
\* with every has_more, follows every cursor once and ends with a key for
\* every question that has a matching record on any page.
PaginationWithCursors ==
    \A p \in Procs :
        (~hist[p].load_failed /\ ~hist[p].odd) => PagedThrough(p)

\* a finished load of more than one page
PaginationWithCursorsReached ==
    \E p \in Procs :
        /\ pc[p] = "write"
        /\ ~hist[p].load_failed /\ ~hist[p].odd
        /\ hist[p].fetches > 1
        /\ Len(results[p]) > PageSize
        /\ \E q \in Questions : existing_map[p][q] # 0

\* C15: every load without transport error follows every cursor once,
\* makes no more queries than there are pages and ends with a key for every
\* question that has a matching record on any page, also when a page reports
\* has_more with an absent next cursor.
C15_PaginationAnyCursor ==
    \A p \in Procs : ~hist[p].load_failed => PagedThrough(p)

(* ------------------------- overlapping sessions ----------------------- *)
\* the Results table before the first of the submissions began
Before == LET first == CHOOSE p \in Procs : exam_date[p] = 1
          IN  hist[first].pre

RECURSIVE AppendNew(_, _, _, _, _)
\* db with a new record for every question of qs
AppendNew(db, s, t, fo, qs) ==
    IF qs = {} THEN db
    ELSE LET q == CHOOSE x \in qs : \A y \in qs : x <= y
         IN  AppendNew(Append(db, [student |-> s, q |-> q, test |-> t,
                                   outcome |-> fo[q]]),
                       s, t, fo, qs \ {q})

\* the records and outcomes one submission leaves when it runs alone on db
\* and every call succeeds: the last record of each submitted question
\* updated, a record created for each submitted question without one
SerialResults(db, s, t, fo) ==
    LET upd == [i \in DOMAIN db |->
                  IF /\ db[i].student = s /\ db[i].test = t
                     /\ db[i].q \in DOMAIN fo
                     /\ i = LastFor(db, s, db[i].q, t)
                  THEN [db[i] EXCEPT !.outcome = fo[db[i].q]]
                  ELSE db[i]]
    IN  AppendNew(upd, s, t, fo,
                  {q \in DOMAIN fo : LastFor(db, s, q, t) = 0})

ProjReports(db) ==
    [i \in DOMAIN db |-> [student |-> db[i].student, test |-> db[i].test,
                          score |-> db[i].score]]

\* the reports and scores one submission leaves when it runs alone on db
SerialReports(db, s, t, score) ==
    LET id == FirstReport(db, s, t)
    IN  IF id # 0 THEN [db EXCEPT ![id].score = score]
        ELSE Append(db, [student |-> s, test |-> t, score |-> score])

SeqRange(f) == {f[i] : i \in DOMAIN f}

ScoreOfSubmission(p) ==
    SumScores(DOMAIN final_outcomes[p], final_outcomes[p], questions)

\* the remote state is the one x then y leave when run one after the other
SerialOutcome(x, y) ==
    LET s == student_id[x]
        t == test_name[x]
        r1 == SerialResults(Proj(Before), s, t, final_outcomes[x])
        r2 == SerialResults(r1, s, t, final_outcomes[y])
        p1 == SerialReports(<<>>, s, t, ScoreOfSubmission(x))
        p2 == SerialReports(p1, s, t, ScoreOfSubmission(y))
    IN  /\ SeqRange(Proj(R_DB)) = SeqRange(r2)
        /\ SeqRange(ProjReports(REPORT_DB)) = SeqRange(p2)

BothDone == \A p \in Procs : pc[p] = "done"

\* C16: when two submissions A and B for the same (student, test) interleave
\* at the granularity of remote calls and every call succeeds, the final
\* records with outcomes and reports with total scores are those of running
\* A then B or B then A without overlap.
C16_Serializable ==
    BothDone => (SerialOutcome("A", "B") \/ SerialOutcome("B", "A"))

\* one submission alone, every call succeeding, leaves what SerialResults
\* and SerialReports say
SerialAgrees ==
    \A p \in Procs :
        (pc[p] = "done" /\ hist[p].clean) =>
            /\ SeqRange(Proj(R_DB)) =
                 SeqRange(SerialResults(Proj(hist[p].pre), student_id[p],
                                        test_name[p], final_outcomes[p]))
            /\ \A i \in ReportsOf(student_id[p], test_name[p]) :
                  REPORT_DB[i].score = ScoreOfSubmission(p)

\* C16 (amended): when both are done, every record is as it was before or
\* holds the outcome and the exam date of one submission's write for its
\* question; every submitted question has a record, and no more new ones
\* than submissions that created one; the pair has one or two reports, each
\* with the total score of A or of B.
C16_PerRecordLastWriter ==
    BothDone =>
        LET s == student_id["A"]
            t == test_name["A"]
            pre == Before
        IN  /\ \A i \in DOMAIN R_DB :
                  \/ i \in DOMAIN pre /\ R_DB[i] = pre[i]
                  \/ \E p \in Procs :
                        /\ R_DB[i].q \in DOMAIN final_outcomes[p]
                        /\ R_DB[i].student = s /\ R_DB[i].test = t
                        /\ R_DB[i].outcome = final_outcomes[p][R_DB[i].q]
                        /\ R_DB[i].date = exam_date[p]
            /\ \A p \in Procs : \A q \in DOMAIN final_outcomes[p] :
                  LET n == Cardinality(RecordsFor(R_DB, s, q, t))
                      n0 == Cardinality(RecordsFor(pre, s, q, t))
                      c == Cardinality({o \in Procs : q \in hist[o].created})
                  IN  n >= 1 /\ n = n0 + c
            /\ Cardinality(ReportsOf(s, t)) \in {1, 2}
            /\ \A i \in ReportsOf(s, t) :
                  \E p \in Procs : REPORT_DB[i].score = ScoreOfSubmission(p)

\* both done after an overlap in which both created a record for the same
\* question and both created a report
C16_Witness ==
    /\ BothDone
    /\ hist["A"].created \cap hist["B"].created # {}
    /\ Len(REPORT_DB) = 2
    /\ final_outcomes["A"] # final_outcomes["B"]

Next ==
    \E p \in Solo :
        \/ Start(p)
        \/ FetchPage(p)
        \/ WriteResult(p)
        \/ ReportQuery(p)
        \/ ReportWrite(p)
        \/ Notify(p)
        \/ Return(p)

Spec == Init /\ [][Next]_vars

\* One session, any time_taken, every remote call succeeding.
NextAnyTime ==
    \E p \in Solo :
        \/ StartAnyTime(p) /\ failures' = 0
        \/ FetchPage(p) /\ failures' = 0
        \/ WriteResult(p) /\ failures' = 0
        \/ ReportQuery(p) /\ failures' = 0
        \/ ReportWrite(p) /\ failures' = 0
        \/ Notify(p) /\ failures' = 0
        \/ Return(p) /\ failures' = 0

SpecAnyTime == Init /\ [][NextAnyTime]_vars

\* One session, every remote call succeeding, against a store that may
\* report has_more without a next cursor.
NextOddCursor ==
    \E p \in Solo :
        \/ Start(p) /\ failures' = 0
        \/ FetchPage(p) /\ failures' = 0
        \/ FetchOddPage(p) /\ failures' = 0
        \/ WriteResult(p) /\ failures' = 0
        \/ ReportQuery(p) /\ failures' = 0
        \/ ReportWrite(p) /\ failures' = 0
        \/ Notify(p) /\ failures' = 0
        \/ Return(p) /\ failures' = 0

SpecOddCursor == Init /\ [][NextOddCursor]_vars

\* Two sessions whose submissions for one (student, test) may overlap, every
\* remote call succeeding.
NextOverlap ==
    \E p \in Procs :
        \/ StartOverlap(p) /\ failures' = 0
        \/ FetchPage(p) /\ failures' = 0
        \/ WriteResult(p) /\ failures' = 0
        \/ ReportQuery(p) /\ failures' = 0
        \/ ReportWrite(p) /\ failures' = 0
        \/ Notify(p) /\ failures' = 0

SpecOverlap == Init /\ [][NextOverlap]_vars

=============================================================================
